---- MODULE Spec2Model ----
(***************************************************************************)
(* MinuteLabs.io toolkit: the velocity-Verlet integrator (VelocityVerlet), *)
(* the frame clock (onFrame) and Vector, as state machines.                 *)
(*                                                                         *)
(* Arithmetic.  Times, durations and accelerations are integers.  The      *)
(* integrator multiplies by halfDt = 0.5 * dt, so positions and velocities *)
(* are held in units of 1/2 (the stored number is twice the JavaScript     *)
(* value) and the kinetic energy in units of 1/8; every product of the     *)
(* code is then exact.  The frame clock counts time in units of 1/3 ms;    *)
(* its deltas and the coordinates of a Vector whose methods are followed   *)
(* are exact fractions, with Infinity and NaN, and are never rounded.      *)
(***************************************************************************)
EXTENDS Integers, Sequences, FiniteSets, TLC

\* ------------------------------------------------------------------------
\* Bounds of the model
\* ------------------------------------------------------------------------
\* the number of step / integrate calls of a run
MaxCalls == 2
\* the sum of the durations requested over a run, and so the largest dt of
\* one step(dt) call
MaxElapsed == 22
\* the number of interaction functions registered
MaxInteractions == 2
\* the largest dt of an integrate(dt) call made directly by the caller
MaxDirectDt == 2

\* the number of callbacks registered with onFrame
MaxListeners == 3
\* the number of frames animated
MaxFrames == 2

\* the number of callbacks registered with onFrame where their ticks are followed
MaxRunners == 2
\* the number of frames animated where the ticks are followed
MaxTicks == 5

\* the largest coordinate of the vectors handed to the Vector methods
MaxCoord == 4
\* the number of reflect calls in a row
MaxReflects == 2

\* the number of calls of a throttled wrapper
MaxWrapperCalls == 4
\* the host's time up to which the wrapper and its timer are followed
MaxClock == 8

\* ------------------------------------------------------------------------
\* Program constants and inputs
\* ------------------------------------------------------------------------
\* this.maxSteps = 20
maxSteps == 20
\* the stepSize values the constructor is given (8 is its default)
StepSizes == {1, 8}
\* the caller's interaction functions (pure functions of body state and dt)
Fns == {"gravity", "restore"}
\* one second of the host's clock: 1000 ms, in the model's units of 1/3 ms
\* (1000 / fps is then a whole number for the default fps of 60)
Second == 3 * 1000
\* the time between two frames: 16 ms and 200 ms
FrameGaps == {3 * 16, 3 * 200}
\* the delay values throttle is given, in ticks of the host's time
Delays == {2, 3}
\* the argument values the wrapper is called with
ArgValues == {1, 2}

VARIABLES
    \* ---- VelocityVerlet fields
    stepSize,       \* this.stepSize
    time,           \* this.time (simulationTime)
    interactions,   \* this.interactions
    objects,        \* this.objects: the bodies, borrowed by reference
    kinetic,        \* this.kinetic (kineticEnergy), in units of 1/8
    hasKinetic,     \* FALSE while this.kinetic is still undefined
    \* ---- the position of the running step / integrate call
    pc,             \* "idle", "test" (step's loop test), "stage2" (at interact), "stage3"
    op,             \* the public operation running or last run
    phase,          \* where integrate was called from: "loop", "remainder", "direct"
    now,            \* step's local now
    target,         \* step's local target
    idt,            \* integrate's parameter dt
    \* ---- observations of a run (read by the properties only)
    calls,          \* step / integrate calls made so far
    elapsed,        \* sum of the durations requested so far
    timeBefore,     \* this.time when the current step call was made
    dtReq,          \* the dt argument of the current step call
    subSteps,       \* the integrate calls of the current step call, in order
    events,         \* what the current integrate call has done, in order
    objects0,       \* the bodies as they were handed to the constructor
    \* ---- onFrame (the frame clock with per-listener options)
    listeners,      \* const listeners = []: the entries { fn, opts }
    defaultHistory, \* defaultOpts.deltaHistory, the one array every default shares
    wall,           \* the host's performance.now(), in units of 1/3 ms
    nextFn,         \* the next callback to be registered (callbacks are numbered)
    cpc,            \* "idle" between frames, "frame" inside listeners.forEach
    frameNow,       \* animate's local now
    frameIdx,       \* forEach's index k (1-based)
    frameLen,       \* forEach's len, read once before the first callback
    \* ---- observations of the frame clock (read by the properties only)
    frames,         \* frames animated so far
    frameStart,     \* the callbacks registered when the current frame started
    invoked,        \* the callbacks invoked in the current frame, with their dt
    stoppedInFrame, \* the handles invoked by callbacks of the current frame
    stopArg,        \* the handle invoked last (0: none since the last change)
    stopBefore,     \* the callbacks registered just before that invocation
    \* ---- observations of tick (read by the properties only)
    ticks,          \* the tick calls of the last frame, in order: opts before and after
    told,           \* per listener: its configured delta and the raw deltas of its ticks
    \* ---- a Vector and the argument of its methods
    vec,            \* the Vector the methods are called on (this)
    arg,            \* the Vector passed as normal / target
    res,            \* the Vector the last method returned
    \* ---- observations of the Vector (read by the properties only)
    vop,            \* the method called last ("none": none yet)
    before,         \* this as it was when that method was called
    origin,         \* this as it was before the current run of reflect calls
    reflects,       \* the length of that run
    thrown,         \* the method called last threw instead of returning
    \* ---- onFrame of src/lib/js/toolkit.js (one clock for all listeners)
    previousTime,   \* let previousTime, in units of 1/3 ms
    fps,            \* let fps, the smoothed frame rate
    \* ---- observations of that onFrame (read by the properties only)
    stoppedEver,    \* the callbacks whose handle has been invoked
    \* ---- throttle(fn, delay): the closure of one wrapper
    to,             \* let to: 0 while undefined or false, else the timer set last
    call,           \* let call
    args,           \* let args: the argument of the last wrapper call (0: undefined)
    delay,          \* the delay parameter
    timers,         \* the host's pending timers, each named by its due time
    clock,          \* the host's time
    \* ---- observations of the wrapper (read by the properties only)
    wcalls,         \* wrapper calls made so far
    lastCallIdle,   \* no timer was pending at the last wrapper call
    lastCallInvoked,\* fn was invoked during the last wrapper call
    lastFnArgs,     \* the argument of the last invocation of fn
    lastFnAt,       \* its time (-1: fn not invoked yet)
    fnGap,          \* the time between the last two invocations of fn (-1: none)
    unserved        \* a wrapper call was made since the last invocation of fn

ivars == <<stepSize, time, interactions, objects, kinetic, hasKinetic,
           pc, op, phase, now, target, idt,
           calls, elapsed, timeBefore, dtReq, subSteps, events, objects0>>

cvars == <<listeners, defaultHistory, wall, nextFn, cpc, frameNow, frameIdx, frameLen,
           frames, frameStart, invoked, stoppedInFrame, stopArg, stopBefore>>

tvars == <<ticks, told>>

vvars == <<vec, arg, res, vop, before, origin, reflects, thrown>>

svars == <<previousTime, fps, stoppedEver>>

hvars == <<to, call, args, delay, timers, clock,
           wcalls, lastCallIdle, lastCallInvoked, lastFnArgs, lastFnAt, fnGap, unserved>>

vars == <<ivars, cvars, tvars, vvars, svars, hvars>>

\* ------------------------------------------------------------------------
\* JavaScript numbers that need not be whole
\* ------------------------------------------------------------------------
RECURSIVE GCD(_, _)
GCD(a, b) == IF b = 0 THEN a ELSE GCD(b, a % b)

Abs(n) == IF n < 0 THEN -n ELSE n

\* the number n / d as the pair <<n', d'>> in lowest terms with d' >= 0: the
\* model's form of a JavaScript number.  d' = 0 holds the values that are no
\* fraction: Infinity <<1, 0>>, -Infinity <<-1, 0>> and NaN <<0, 0>>.
\* (-0 is not told from 0, and no fraction is rounded.)
Rat(n, d) ==
    IF d = 0 THEN <<IF n > 0 THEN 1 ELSE IF n < 0 THEN -1 ELSE 0, 0>>
    ELSE LET g == GCD(Abs(n), Abs(d))
         IN  <<((IF d < 0 THEN -1 ELSE 1) * n) \div g, Abs(d) \div g>>

\* a whole number
Num(i) == <<i, 1>>

NaN == <<0, 0>>

Infinity == <<1, 0>>

IsNaN(a) == a = NaN

\* isFinite(a)
IsFinite(a) == a[2] # 0

\* a * b: Infinity * 0 is NaN
Times(a, b) == Rat(a[1] * b[1], a[2] * b[2])

\* 1 / a: 1 / 0 is Infinity
Inverse(a) == IF a[1] < 0 THEN <<-a[2], -a[1]>> ELSE <<a[2], a[1]>>

\* a / b: x / 0 is Infinity or -Infinity, 0 / 0 and Infinity / Infinity NaN
Over(a, b) == Times(a, Inverse(b))

\* a < b: false when either is NaN
Less(a, b) ==
    IF IsNaN(a) \/ IsNaN(b) THEN FALSE
    ELSE IF a[2] = 0 /\ b[2] = 0 THEN a[1] < b[1]
    ELSE a[1] * b[2] < b[1] * a[2]

\* a number in a condition: 0 and NaN count as false
Truthy(a) == ~IsNaN(a) /\ a # Num(0)

\* a + b: Infinity + -Infinity is NaN
Plus(a, b) ==
    IF a[2] = 0 /\ b[2] = 0 THEN (IF a = b THEN a ELSE NaN)
    ELSE Rat(a[1] * b[2] + b[1] * a[2], a[2] * b[2])

\* a - b
Minus(a, b) == Plus(a, <<-b[1], b[2]>>)

\* Math.min(a, b) and Math.max(a, b): NaN if either is
MathMin(a, b) == IF IsNaN(a) \/ IsNaN(b) THEN NaN ELSE IF Less(b, a) THEN b ELSE a

MathMax(a, b) == IF IsNaN(a) \/ IsNaN(b) THEN NaN ELSE IF Less(a, b) THEN b ELSE a

\* n is the square of a whole number
IsSquare(n) == \E r \in 0..n : r * r = n

\* Math.sqrt(a) is a fraction again (or is not finite)
HasSqrt(a) == a[2] = 0 \/ a[1] < 0 \/ (IsSquare(a[1]) /\ IsSquare(a[2]))

\* Math.sqrt(a), for a with HasSqrt(a): NaN below 0
Sqrt(a) ==
    IF a[2] = 0 THEN (IF a[1] > 0 THEN Infinity ELSE NaN)
    ELSE IF a[1] < 0 THEN NaN
    ELSE <<CHOOSE r \in 0..a[1] : r * r = a[1], CHOOSE r \in 0..a[2] : r * r = a[2]>>

\* ------------------------------------------------------------------------
\* Vector (src/lib/js/vector.js), the operations the integrator uses
\* ------------------------------------------------------------------------
\* V(): new Vector() with the constructor's defaults x = 0, y = 0
V0 == <<0, 0>>

\* add(other)
VAdd(a, b) == <<a[1] + b[1], a[2] + b[2]>>

\* multiply(number)
VMul(a, n) == <<a[1] * n, a[2] * n>>

\* normSq()
normSq(a) == a[1] * a[1] + a[2] * a[2]

\* ------------------------------------------------------------------------
\* Vector (src/lib/js/vector.js) with coordinates that need not be whole: a
\* record [x, y] of numbers.  The methods that change this return the new
\* this.
\* ------------------------------------------------------------------------
\* new Vector(x, y)
Vector(x, y) == [x |-> x, y |-> y]

\* new Vector()
ZeroVector == Vector(Num(0), Num(0))

clone(v) == Vector(v.x, v.y)

subtract(v, other) == Vector(Minus(v.x, other.x), Minus(v.y, other.y))

multiply(v, number) == Vector(Times(v.x, number), Times(v.y, number))

times(v, number) == multiply(clone(v), number)

\* normSq(), of a record (normSq above is the same on whole coordinates)
NormSq(v) == Plus(Times(v.x, v.x), Times(v.y, v.y))

norm(v) == Sqrt(NormSq(v))

\* setNorm(n) with the division by a zero norm left in
setNormUnguarded(v, n) == multiply(v, Over(n, norm(v)))

\* setNorm(n): a zero vector is made (1, 0) first
setNorm(v, n) ==
    IF norm(v) = Num(0) THEN multiply(Vector(Num(1), Num(0)), Over(n, Num(1)))
    ELSE multiply(v, Over(n, norm(v)))

normalize(v) == setNorm(v, Num(1))

dot(v, vector) == Plus(Times(v.x, vector.x), Times(v.y, vector.y))

\* proj(vector) as the target scaled by dot / normSq, nothing normalised
projUnguarded(v, vector) == times(vector, Over(dot(v, vector), NormSq(vector)))

\* proj(vector): this projected on the target, a new Vector
proj(v, vector) ==
    LET other == normalize(clone(vector))
    IN  multiply(other, dot(v, other))

\* clampedProj(vector): the projection kept between 0 and the target
clampedProj(v, vector) ==
    LET n == norm(vector)
        other == normalize(clone(vector))
    IN  multiply(other, MathMin(n, MathMax(Num(0), dot(v, other))))

\* copy(v): this.set(v.x, v.y), given the argument list of the call; with no
\* argument v is undefined and reading v.x throws a TypeError before this is
\* touched.  [threw, this]
copy(v, given) ==
    IF Len(given) = 0 THEN [threw |-> TRUE, this |-> v]
    ELSE [threw |-> FALSE, this |-> Vector(given[1].x, given[1].y)]

\* reflect(normal) with the projection on the normal taken off once
reflectOnce(v, normal) ==
    subtract(v, times(normal, Over(dot(v, normal), NormSq(normal))))

\* reflect(normal): this mirrored, in place
reflect(v, normal) ==
    LET n == NormSq(normal)
    IN  subtract(v, times(normal, Over(Times(Num(2), dot(v, normal)), n)))

\* reflection(normal): this.copy().reflect(normal), copy called with no
\* argument; copy returns this, which reflect then changes.
\* [threw, this, value]
reflection(v, normal) ==
    LET c == copy(v, <<>>)
    IN  IF c.threw THEN [threw |-> TRUE, this |-> c.this, value |-> c.this]
        ELSE [threw |-> FALSE, this |-> reflect(c.this, normal),
              value |-> reflect(c.this, normal)]

\* ------------------------------------------------------------------------
\* VelocityVerlet.integrate, one stage at a time
\* ------------------------------------------------------------------------
\* stage 1 with the reset of the acceleration left out
ShiftPositionNoReset(obj, dt) ==
    [obj EXCEPT !.oldAcc = obj.acceleration,
                !.hasOldAcc = TRUE,
                !.position = VAdd(obj.position,
                                  VMul(VAdd(VMul(obj.acceleration, dt), obj.velocity), dt))]

\* stage 1, one body: oldAcc.copy(acceleration); position.add(((1/2) a dt + v) dt);
\* acceleration.set(0, 0).  Positions and velocities are stored doubled:
\* 2 dx = (a dt + 2 v) dt.
ShiftPosition(obj, dt) ==
    [obj EXCEPT !.oldAcc = obj.acceleration,
                !.hasOldAcc = TRUE,
                !.position = VAdd(obj.position,
                                  VMul(VAdd(VMul(obj.acceleration, dt), obj.velocity), dt)),
                !.acceleration = V0]

\* let m = obj.m || 1   (m = 0 stands for a mass that is absent or zero)
Mass(obj) == IF obj.m = 0 THEN 1 ELSE obj.m

\* stage 3, one body: velocity.add((1/2) (oldAcc + a) dt); 2 dv = (oldAcc + a) dt
ShiftVelocity(obj, dt) ==
    [obj EXCEPT !.velocity = VAdd(obj.velocity,
                                  VMul(VAdd(obj.oldAcc, obj.acceleration), dt))]

\* this.kinetic += 0.5 * m * obj.velocity.normSq(), in units of 1/8
KineticOf(obj) == Mass(obj) * normSq(obj.velocity)

\* stage 3 with this.kinetic = 0 left out: the sum carries on from the last call
KineticCarried(k) == k

\* this.kinetic = 0 before stage 3
KineticStart(k) == 0

RECURSIVE SumKinetic(_, _)
SumKinetic(objs, i) ==
    IF i = 0 THEN 0 ELSE SumKinetic(objs, i - 1) + KineticOf(objs[i])

\* the sign of a number
Sgn(x) == IF x > 0 THEN 1 ELSE IF x < 0 THEN -1 ELSE 0

\* fns[i](objs, dt): the caller's interaction functions; each adds to the
\* bodies' accelerations and touches nothing else
ApplyFn(f, objs, dt) ==
    IF f = "gravity"
    THEN [i \in DOMAIN objs |->
            [objs[i] EXCEPT !.acceleration = VAdd(@, <<0, 1>>)]]
    ELSE [i \in DOMAIN objs |->
            [objs[i] EXCEPT !.acceleration = VAdd(@, <<-Sgn(objs[i].position[1]), 0>>)]]

\* interact walking this.interactions from its end: i = l - 1 .. 0
FnAtReversed(fns, i) == fns[Len(fns) + 1 - i]

\* the order in which interact walks this.interactions: i = 0 .. l - 1
FnAt(fns, i) == fns[i]

\* the events of stage 1 / stage 3 over all bodies, in loop order
RECURSIVE BodyEvents(_, _)
BodyEvents(kind, n) ==
    IF n = 0 THEN <<>> ELSE Append(BodyEvents(kind, n - 1), <<kind, n>>)

\* integrate(dt) up to the call of this.interact: stage 1 for every body
\* (with no interaction function registered, interact's loop runs zero times)
BeginIntegrate(dt) ==
    /\ idt' = dt
    /\ objects' = [i \in DOMAIN objects |-> ShiftPosition(objects[i], dt)]
    /\ events' = BodyEvents("position", Len(objects))
    /\ pc' = IF Len(interactions) = 0 THEN "stage3" ELSE "stage2"

\* interact's loop: fns[i](objs, dt) for i = 0 .. l - 1, the first n of them
RECURSIVE RunFns(_, _, _, _)
RunFns(fns, n, objs, dt) ==
    IF n = 0 THEN objs
    ELSE ApplyFn(FnAt(fns, n), RunFns(fns, n - 1, objs, dt), dt)

\* interact(dt): every interaction function, in the loop's order
Interact ==
    /\ pc = "stage2"
    /\ objects' = RunFns(interactions, Len(interactions), objects, idt)
    /\ events' = events \o [i \in 1..Len(interactions) |-> <<FnAt(interactions, i), i>>]
    /\ pc' = "stage3"
    /\ UNCHANGED <<stepSize, time, interactions, kinetic, hasKinetic, op, phase, now,
                   target, idt, calls, elapsed, timeBefore, dtReq, subSteps, objects0>>
    /\ UNCHANGED <<cvars, tvars, vvars, svars, hvars>>

\* integrate(dt) from this.kinetic = 0 to its return: stage 3 for every body.
\* Back in step, the loop's now += stepSize follows a full sub-step, and step
\* returns after the remainder.
FinishIntegrate ==
    /\ pc = "stage3"
    /\ objects' = [i \in DOMAIN objects |-> ShiftVelocity(objects[i], idt)]
    /\ kinetic' = KineticStart(kinetic) + SumKinetic(objects', Len(objects))
    /\ hasKinetic' = TRUE
    /\ events' = events \o BodyEvents("velocity", Len(objects))
    /\ IF phase = "loop"
       THEN now' = now + stepSize /\ pc' = "test"
       ELSE now' = now /\ pc' = "idle"
    /\ UNCHANGED <<stepSize, time, interactions, op, phase, target, idt,
                   calls, elapsed, timeBefore, dtReq, subSteps, objects0>>
    /\ UNCHANGED <<cvars, tvars, vvars, svars, hvars>>

\* integrate(dt) called by the application itself, up to the call of interact
IntegrateCall(dt) ==
    /\ pc = "idle"
    /\ calls < MaxCalls
    /\ elapsed + dt <= MaxElapsed
    /\ op' = "integrate"
    /\ phase' = "direct"
    /\ calls' = calls + 1
    /\ elapsed' = elapsed + dt
    /\ BeginIntegrate(dt)
    /\ UNCHANGED <<stepSize, time, interactions, kinetic, hasKinetic, now, target,
                   timeBefore, dtReq, subSteps, objects0>>
    /\ UNCHANGED <<cvars, tvars, vvars, svars, hvars>>

\* ------------------------------------------------------------------------
\* VelocityVerlet.step
\* ------------------------------------------------------------------------
\* if (!dt) { dt = stepSize }   (dt = 0 also stands for a dt left out)
EffectiveDt(dt, ss) == IF dt = 0 THEN ss ELSE dt

\* step without the time budget: now = this.time whatever dt is
StartOfUnclamped(t, dt, ss) == t

\* let now = this.time; if (dt > maxTime) { now = target - maxTime }
StartOf(t, dt, ss) ==
    IF dt > maxSteps * ss THEN (t + dt) - maxSteps * ss ELSE t

\* this.time = now, at the head of a full sub-step
TimeInLoop(n, ss) == n

\* the remainder's assignment with the duration in place of the target:
\* this.time = target - now
TimeAtRemainderAsDuration(n, tgt) == tgt - n

\* this.time = target, before the remainder sub-step
TimeAtRemainder(n, tgt) == tgt

\* the remainder's duration with its operands exchanged: now - target
RemainderDtReversed(n, tgt) == n - tgt

\* the dt of the remainder sub-step: integrate(target - now)
RemainderDt(n, tgt) == tgt - n

\* the loop's test: now < target
LoopTest(n, tgt) == n < tgt

\* step(dt) up to the loop: the locals stepSize, maxTime, now and target
StepCall(dt) ==
    /\ pc = "idle"
    /\ calls < MaxCalls
    /\ elapsed + EffectiveDt(dt, stepSize) <= MaxElapsed
    /\ op' = "step"
    /\ calls' = calls + 1
    /\ elapsed' = elapsed + EffectiveDt(dt, stepSize)
    /\ timeBefore' = time
    /\ dtReq' = dt
    /\ target' = time + EffectiveDt(dt, stepSize)
    /\ now' = StartOf(time, EffectiveDt(dt, stepSize), stepSize)
    /\ subSteps' = <<>>
    /\ pc' = "test"
    /\ UNCHANGED <<stepSize, time, interactions, objects, kinetic, hasKinetic, phase,
                   idt, events, objects0>>
    /\ UNCHANGED <<cvars, tvars, vvars, svars, hvars>>

\* step at the loop test: a full sub-step while now < target
FullSubStep ==
    /\ pc = "test"
    /\ LoopTest(now, target)
    /\ time' = TimeInLoop(now, stepSize)
    /\ phase' = "loop"
    /\ subSteps' = Append(subSteps, [kind |-> "full", dt |-> stepSize])
    /\ BeginIntegrate(stepSize)
    /\ UNCHANGED <<stepSize, interactions, kinetic, hasKinetic, op, now, target,
                   calls, elapsed, timeBefore, dtReq, objects0>>
    /\ UNCHANGED <<cvars, tvars, vvars, svars, hvars>>

\* step after the loop: if (now !== target) the remainder sub-step
RemainderSubStep ==
    /\ pc = "test"
    /\ ~LoopTest(now, target)
    /\ now # target
    /\ time' = TimeAtRemainder(now, target)
    /\ phase' = "remainder"
    /\ subSteps' = Append(subSteps, [kind |-> "remainder", dt |-> RemainderDt(now, target)])
    /\ BeginIntegrate(RemainderDt(now, target))
    /\ UNCHANGED <<stepSize, interactions, kinetic, hasKinetic, op, now, target,
                   calls, elapsed, timeBefore, dtReq, objects0>>
    /\ UNCHANGED <<cvars, tvars, vvars, svars, hvars>>

\* step after the loop with now === target: return this
StepReturn ==
    /\ pc = "test"
    /\ ~LoopTest(now, target)
    /\ now = target
    /\ pc' = "idle"
    /\ UNCHANGED <<stepSize, time, interactions, objects, kinetic, hasKinetic, op,
                   phase, now, target, idt, calls, elapsed, timeBefore,
                   dtReq, subSteps, events, objects0>>
    /\ UNCHANGED <<cvars, tvars, vvars, svars, hvars>>

\* onInteraction(fn): this.interactions.push(fn); the application registers
\* its interaction functions before it starts stepping
OnInteraction(f) ==
    /\ pc = "idle"
    /\ calls = 0
    /\ Len(interactions) < MaxInteractions
    /\ interactions' = Append(interactions, f)
    /\ UNCHANGED <<stepSize, time, objects, kinetic, hasKinetic, pc, op, phase, now,
                   target, idt, calls, elapsed, timeBefore, dtReq,
                   subSteps, events, objects0>>
    /\ UNCHANGED <<cvars, tvars, vvars, svars, hvars>>

\* ------------------------------------------------------------------------
\* The integrator's specification
\* ------------------------------------------------------------------------
\* a body as the caller hands it over; v and a are its velocity (doubled)
\* and acceleration
Body(p, v, a, m) ==
    [position |-> p, velocity |-> v, acceleration |-> a, oldAcc |-> V0,
     hasOldAcc |-> FALSE, m |-> m]

\* the collections of bodies the constructor is given
InitialObjects ==
    { <<Body(<<2, 0>>, <<2, 0>>, a, 0), Body(<<-4, 2>>, <<0, -2>>, V0, 2)>> :
        a \in {V0, <<0, 2>>} }

\* the frame clock once the library is loaded: no listener, the first
\* animate() has run over the empty list, defaultOpts.deltaHistory is []
ClockLoaded ==
    /\ listeners = <<>>
    /\ defaultHistory = <<>>
    /\ wall = 0
    /\ nextFn = 1
    /\ cpc = "idle"
    /\ frameNow = 0
    /\ frameIdx = 1
    /\ frameLen = 0
    /\ frames = 0
    /\ frameStart = <<>>
    /\ invoked = <<>>
    /\ stoppedInFrame = {}
    /\ stopArg = 0
    /\ stopBefore = <<>>
    /\ ticks = <<>>
    /\ told = <<>>

\* new VelocityVerlet(objects, stepSize)
Constructed ==
    /\ stepSize \in StepSizes
    /\ time = 0
    /\ interactions = <<>>
    /\ objects \in InitialObjects
    /\ objects0 = objects
    /\ kinetic = 0
    /\ hasKinetic = FALSE
    /\ pc = "idle"
    /\ op = "none"
    /\ phase = "none"
    /\ now = 0
    /\ target = 0
    /\ idt = 0
    /\ calls = 0
    /\ elapsed = 0
    /\ timeBefore = 0
    /\ dtReq = 0
    /\ subSteps = <<>>
    /\ events = <<>>

\* no Vector method called, on a Vector of the default coordinates
VectorUnused ==
    /\ vec = ZeroVector
    /\ arg = ZeroVector
    /\ res = ZeroVector
    /\ vop = "none"
    /\ before = ZeroVector
    /\ origin = ZeroVector
    /\ reflects = 0
    /\ thrown = FALSE

\* lerp(min, max, v)
lerp(min, max, v) == Plus(Times(max, v), Times(min, Minus(Num(1), v)))

\* toolkit.js's onFrame once the library is loaded: previousTime is 12 ms
\* before the load (time 0), fps is 30, and the first animate() has run over
\* the empty list
SimpleLoaded ==
    /\ previousTime = 0
    /\ fps = lerp(Num(30), Over(Num(Second), Num(3 * 12)), Rat(2, 10))
    /\ stoppedEver = {}

\* throttle(fn, d) has returned its wrapper: to undefined, call false, args
\* undefined, no timer set
Throttled(d) ==
    /\ to = 0
    /\ call = FALSE
    /\ args = 0
    /\ delay = d
    /\ timers = {}
    /\ clock = 0
    /\ wcalls = 0
    /\ lastCallIdle = FALSE
    /\ lastCallInvoked = FALSE
    /\ lastFnArgs = 0
    /\ lastFnAt = -1
    /\ fnGap = -1
    /\ unserved = FALSE

\* the library loaded, an integrator constructed and a wrapper made with
\* throttle's default delay
Init == Constructed /\ ClockLoaded /\ VectorUnused /\ SimpleLoaded /\ Throttled(50)

\* the integrator driven by its caller; the frame clock stays as loaded
Next ==
    \/ \E f \in Fns : OnInteraction(f)
    \/ \E dt \in 0..MaxElapsed : StepCall(dt)
    \/ \E dt \in 1..MaxDirectDt : IntegrateCall(dt)
    \/ FullSubStep
    \/ RemainderSubStep
    \/ StepReturn
    \/ Interact
    \/ FinishIntegrate


Spec == Init /\ [][Next]_vars

\* ------------------------------------------------------------------------
\* onFrame: the options of a listener
\* ------------------------------------------------------------------------
\* const defaultOpts.  deltaHistory is one array object: histShared says that
\* a listener's opts.deltaHistory still is that object, and deltaHistory
\* holds the listener's own array once it has one.  timePrev: null is
\* timePrevIsNull, and counts as 0 in arithmetic.
defaultOpts ==
    [fps |-> Num(60), correction |-> Num(1), deltaSampleSize |-> 60,
     counterTimestamp |-> 0, frameCounter |-> 0,
     histShared |-> TRUE, deltaHistory |-> <<>>,
     timePrev |-> 0, timePrevIsNull |-> TRUE,
     timeScalePrev |-> 1, isFixed |-> FALSE, timeScale |-> 1]

\* the option objects callers pass to onFrame
UserOpts == { <<>>, [isFixed |-> TRUE] }

\* Object.assign({}, a, b): the own properties of a, then those of b
Assign(a, b) ==
    [k \in (DOMAIN a) \cup (DOMAIN b) |-> IF k \in DOMAIN b THEN b[k] ELSE a[k]]

\* opts.k || fallback, for an option that is absent (undefined), 0 or NaN
OrElse(o, k, fallback) ==
    IF k \in DOMAIN o /\ Truthy(o[k]) THEN o[k] ELSE fallback

\* onFrame's opts: Object.assign, then delta, deltaMin, deltaMax and fps
NewOpts(user) ==
    LET o == Assign(defaultOpts, user)
        delta == OrElse(o, "delta", Over(Num(Second), o.fps))
    IN  Assign(o, [delta |-> delta,
                   deltaMin |-> OrElse(o, "deltaMin", Over(Num(Second), o.fps)),
                   deltaMax |-> OrElse(o, "deltaMax",
                                       Over(Num(Second), Times(o.fps, Rat(1, 2)))),
                   fps |-> Over(Num(Second), delta)])

\* ------------------------------------------------------------------------
\* onFrame: tick
\* ------------------------------------------------------------------------
\* the largest element in place of the smallest
RECURSIVE MaxOf(_)
MaxOf(arr) ==
    IF Len(arr) = 1 THEN arr[1]
    ELSE LET m == MaxOf(Tail(arr))
         IN  IF IsNaN(arr[1]) \/ IsNaN(m) THEN NaN
             ELSE IF Less(m, arr[1]) THEN arr[1] ELSE m

\* Math.min.apply(null, arr), arr not empty: NaN if an element is
RECURSIVE MinOf(_)
MinOf(arr) ==
    IF Len(arr) = 1 THEN arr[1]
    ELSE LET m == MinOf(Tail(arr))
         IN  IF IsNaN(arr[1]) \/ IsNaN(m) THEN NaN
             ELSE IF Less(arr[1], m) THEN arr[1] ELSE m

\* arr.slice(-n): the last n elements; slice(-0) is slice(0), the whole array
SliceLast(arr, n) ==
    IF n = 0 \/ n >= Len(arr) THEN arr ELSE SubSeq(arr, Len(arr) - n + 1, Len(arr))

\* time - runner.timePrev, null counting as 0
SinceTimePrev(t, runner) == t - (IF runner.timePrevIsNull THEN 0 ELSE runner.timePrev)

\* delta = (time - runner.timePrev) || runner.delta
RawDelta(t, runner) ==
    IF SinceTimePrev(t, runner) # 0 THEN Num(SinceTimePrev(t, runner)) ELSE runner.delta

\* limit delta
Clamp(d, lo, hi) ==
    LET d1 == IF Less(d, lo) THEN lo ELSE d
    IN  IF Less(hi, d1) THEN hi ELSE d1

\* the array runner.deltaHistory.push(delta) pushes onto
HistoryOf(runner, shared) == IF runner.histShared THEN shared ELSE runner.deltaHistory

\* the dynamic branch of tick: [runner, delta, correction, shared], shared
\* being defaultOpts.deltaHistory after the push
TickDynamic(t, runner, shared) ==
    LET pushed == Append(HistoryOf(runner, shared), RawDelta(t, runner))
        hist == SliceLast(pushed, runner.deltaSampleSize)
        delta == Clamp(MinOf(hist), runner.deltaMin, runner.deltaMax)
    IN  [runner |-> [runner EXCEPT !.timePrev = t, !.timePrevIsNull = FALSE,
                                   !.deltaHistory = hist, !.histShared = FALSE,
                                   !.delta = delta],
         delta |-> delta,
         correction |-> Over(delta, runner.delta),
         shared |-> IF runner.histShared THEN pushed ELSE shared]

\* the fixed branch of tick
TickFixed(t, runner, shared) ==
    [runner |-> runner, delta |-> runner.delta, correction |-> Num(1),
     shared |-> shared]

\* time correction for time scaling
ScaleCorrection(c, timeScale, timeScalePrev) ==
    IF timeScale = 0 THEN Num(0)
    ELSE IF timeScalePrev # 0 THEN Times(c, Rat(timeScale, timeScalePrev))
    ELSE c

\* the fps counter
CountFrame(t, runner) ==
    IF t - runner.counterTimestamp >= Second
    THEN [runner EXCEPT !.fps = Rat((runner.frameCounter + 1) * (t - runner.counterTimestamp),
                                    Second),
                        !.counterTimestamp = t,
                        !.frameCounter = 0]
    ELSE [runner EXCEPT !.frameCounter = @ + 1]

\* tick(time, runner): [runner, delta, shared]
Tick(t, runner, shared) ==
    LET b == IF runner.isFixed THEN TickFixed(t, runner, shared)
                               ELSE TickDynamic(t, runner, shared)
        c == ScaleCorrection(b.correction, runner.timeScale, runner.timeScalePrev)
    IN  [runner |-> CountFrame(t, [b.runner EXCEPT !.timeScalePrev = runner.timeScale,
                                                   !.correction = c]),
         delta |-> b.delta,
         shared |-> b.shared]

\* dt * o.opts.timeScale, the first argument of the callback
Delivered(delta, runner) == Times(delta, Num(runner.timeScale))

\* ------------------------------------------------------------------------
\* onFrame: the listener list
\* ------------------------------------------------------------------------
\* entry === fn for an element { fn, opts } of listeners and a callback fn:
\* an entry is an object of its own, never the function
SameObject(entry, f) == FALSE

\* arr.indexOf(f): the 0-based index of the first element === f, or -1
IndexOf(arr, f) ==
    IF \E i \in 1..Len(arr) : SameObject(arr[i], f)
    THEN (CHOOSE i \in 1..Len(arr) :
            /\ SameObject(arr[i], f)
            /\ \A j \in 1..(i - 1) : ~SameObject(arr[j], f)) - 1
    ELSE -1

\* arr.splice(start, 1): a negative start counts from the end
Splice1(arr, start) ==
    LET from == IF start < 0
                THEN (IF Len(arr) + start < 0 THEN 0 ELSE Len(arr) + start)
                ELSE (IF start > Len(arr) THEN Len(arr) ELSE start)
    IN  IF from >= Len(arr) THEN arr
        ELSE SubSeq(arr, 1, from) \o SubSeq(arr, from + 2, Len(arr))

\* stop(): listeners.splice(listeners.indexOf(fn), 1)
AfterStop(arr, f) == Splice1(arr, IndexOf(arr, f))

\* the callbacks of the entries, in list order
FnsOf(arr) == [i \in 1..Len(arr) |-> arr[i].fn]

\* the handles onFrame has returned so far
Handles == 1..(nextFn - 1)

\* onFrame(fn, opts), from application code between frames
Register(user) ==
    /\ cpc = "idle"
    /\ nextFn <= MaxListeners
    /\ listeners' = Append(listeners, [fn |-> nextFn, opts |-> NewOpts(user)])
    /\ nextFn' = nextFn + 1
    /\ stopArg' = 0
    /\ stopBefore' = <<>>
    /\ UNCHANGED <<defaultHistory, wall, cpc, frameNow, frameIdx, frameLen, frames,
                   frameStart, invoked, stoppedInFrame>>
    /\ UNCHANGED <<ivars, tvars, vvars, svars, hvars>>

\* stop(), the handle of callback h, from application code between frames
Stop(h) ==
    /\ cpc = "idle"
    /\ listeners' = AfterStop(listeners, h)
    /\ stopArg' = h
    /\ stopBefore' = FnsOf(listeners)
    /\ UNCHANGED <<defaultHistory, wall, nextFn, cpc, frameNow, frameIdx, frameLen,
                   frames, frameStart, invoked, stoppedInFrame>>
    /\ UNCHANGED <<ivars, tvars, vvars, svars, hvars>>

\* animate up to listeners.forEach: the host calls it once per frame
AnimateStart(gap) ==
    /\ cpc = "idle"
    /\ frames < MaxFrames
    /\ wall' = wall + gap
    /\ frameNow' = wall + gap
    /\ frameIdx' = 1
    /\ frameLen' = Len(listeners)
    /\ frames' = frames + 1
    /\ frameStart' = FnsOf(listeners)
    /\ invoked' = <<>>
    /\ stoppedInFrame' = {}
    /\ cpc' = "frame"
    /\ UNCHANGED <<listeners, defaultHistory, nextFn, stopArg, stopBefore>>
    /\ UNCHANGED <<ivars, tvars, vvars, svars, hvars>>

\* forEach at an index that holds an element: tick, then the callback, which
\* returns (h = 0) or invokes the handle h before it returns
Deliver(h) ==
    /\ cpc = "frame"
    /\ frameIdx <= frameLen
    /\ frameIdx <= Len(listeners)
    /\ LET o == listeners[frameIdx]
           t == Tick(frameNow, o.opts, defaultHistory)
           ticked == [listeners EXCEPT ![frameIdx].opts = t.runner]
       IN  /\ defaultHistory' = t.shared
           /\ invoked' = Append(invoked, [fn |-> o.fn, dt |-> Delivered(t.delta, t.runner)])
           /\ IF h = 0
              THEN /\ listeners' = ticked
                   /\ UNCHANGED <<stoppedInFrame, stopArg, stopBefore>>
              ELSE /\ listeners' = AfterStop(ticked, h)
                   /\ stoppedInFrame' = stoppedInFrame \cup {h}
                   /\ stopArg' = h
                   /\ stopBefore' = FnsOf(ticked)
    /\ frameIdx' = frameIdx + 1
    /\ UNCHANGED <<wall, nextFn, cpc, frameNow, frameLen, frames, frameStart>>
    /\ UNCHANGED <<ivars, tvars, vvars, svars, hvars>>

\* forEach at an index the array no longer has: no callback
SkipMissing ==
    /\ cpc = "frame"
    /\ frameIdx <= frameLen
    /\ frameIdx > Len(listeners)
    /\ frameIdx' = frameIdx + 1
    /\ UNCHANGED <<listeners, defaultHistory, wall, nextFn, cpc, frameNow, frameLen,
                   frames, frameStart, invoked, stoppedInFrame, stopArg, stopBefore>>
    /\ UNCHANGED <<ivars, tvars, vvars, svars, hvars>>

\* forEach past its last index: animate returns
EndFrame ==
    /\ cpc = "frame"
    /\ frameIdx > frameLen
    /\ cpc' = "idle"
    /\ UNCHANGED <<listeners, defaultHistory, wall, nextFn, frameNow, frameIdx, frameLen,
                   frames, frameStart, invoked, stoppedInFrame, stopArg, stopBefore>>
    /\ UNCHANGED <<ivars, tvars, vvars, svars, hvars>>

ClockStep ==
    \/ \E user \in UserOpts : Register(user)
    \/ \E h \in Handles : Stop(h)
    \/ \E gap \in FrameGaps : AnimateStart(gap)
    \/ \E h \in {0} \cup Handles : Deliver(h)
    \/ SkipMissing
    \/ EndFrame

\* the frame clock driven by the host and the application, beside one
\* integrator that is left alone
ClockInit ==
    /\ Init
    /\ stepSize = 8
    /\ \A i \in DOMAIN objects : objects[i].acceleration = V0

SpecClock == ClockInit /\ [][ClockStep]_vars

\* ------------------------------------------------------------------------
\* onFrame: the ticks of listeners that stay registered
\* ------------------------------------------------------------------------
\* the option objects callers pass to onFrame: none, a fixed clock at double
\* speed, a short history with deltaMax 33 ms, a paused clock with fps 0, a
\* negative fps
TickOpts ==
    { <<>>,
      [isFixed |-> TRUE, timeScale |-> 2],
      [deltaSampleSize |-> 5, deltaMax |-> Num(3 * 33)],
      [fps |-> Num(0), timeScale |-> 0],
      [fps |-> Num(-60)] }

\* the last element of an array
Last(arr) == arr[Len(arr)]

\* what one tick call did: the opts before and after, the delta returned and
\* the dt handed to the callback
TickRecord(t, runner, r) ==
    [time |-> t, before |-> runner, after |-> r.runner, delta |-> r.delta,
     dt |-> Delivered(r.delta, r.runner)]

\* listeners.forEach from index i on, the callbacks returning at once:
\* [listeners, shared, ticks]
RECURSIVE ForEachTick(_, _, _, _)
ForEachTick(t, ls, shared, i) ==
    IF i > Len(ls) THEN [listeners |-> ls, shared |-> shared, ticks |-> <<>>]
    ELSE LET r == Tick(t, ls[i].opts, shared)
             rest == ForEachTick(t, [ls EXCEPT ![i].opts = r.runner], r.shared, i + 1)
         IN  [rest EXCEPT !.ticks = <<TickRecord(t, ls[i].opts, r)>> \o @]

\* onFrame(fn, opts), the handle it returns never invoked
Listen(user) ==
    /\ Len(listeners) < MaxRunners
    /\ listeners' = Append(listeners, [fn |-> nextFn, opts |-> NewOpts(user)])
    /\ nextFn' = nextFn + 1
    /\ told' = Append(told, [nominal |-> NewOpts(user).delta, raws |-> <<>>])
    /\ UNCHANGED <<defaultHistory, wall, cpc, frameNow, frameIdx, frameLen, frames,
                   frameStart, invoked, stoppedInFrame, stopArg, stopBefore, ticks>>
    /\ UNCHANGED <<ivars, vvars, svars, hvars>>

\* animate, once per frame of the host
Animate(gap) ==
    /\ frames < MaxTicks
    /\ wall' = wall + gap
    /\ frames' = frames + 1
    /\ \E all \in {ForEachTick(wall + gap, listeners, defaultHistory, 1)} :
           /\ listeners' = all.listeners
           /\ defaultHistory' = all.shared
           /\ ticks' = all.ticks
           /\ told' = [i \in 1..Len(told) |->
                         IF all.ticks[i].before.isFixed THEN told[i]
                         ELSE [told[i] EXCEPT
                                 !.raws = Append(@, Last(all.ticks[i].after.deltaHistory))]]
    /\ UNCHANGED <<nextFn, cpc, frameNow, frameIdx, frameLen, frameStart, invoked,
                   stoppedInFrame, stopArg, stopBefore>>
    /\ UNCHANGED <<ivars, vvars, svars, hvars>>

TickStep ==
    \/ \E user \in TickOpts : Listen(user)
    \/ \E gap \in FrameGaps : Animate(gap)

SpecTick == ClockInit /\ [][TickStep]_vars

\* ------------------------------------------------------------------------
\* onFrame of src/lib/js/toolkit.js: the listeners are the callbacks
\* themselves, and one clock serves them all
\* ------------------------------------------------------------------------
\* listeners.indexOf(fn) over callbacks: the 0-based index of the first
\* element === fn, or -1
IndexOfFn(arr, f) ==
    IF \E i \in 1..Len(arr) : arr[i] = f
    THEN (CHOOSE i \in 1..Len(arr) :
            /\ arr[i] = f
            /\ \A j \in 1..(i - 1) : arr[j] # f) - 1
    ELSE -1

\* onFrame(fn)
AddListener ==
    /\ nextFn <= MaxListeners
    /\ listeners' = Append(listeners, nextFn)
    /\ nextFn' = nextFn + 1
    /\ UNCHANGED <<defaultHistory, wall, cpc, frameNow, frameIdx, frameLen, frames,
                   frameStart, invoked, stoppedInFrame, stopArg, stopBefore>>
    /\ UNCHANGED <<ivars, tvars, vvars, svars, hvars>>

\* stop(), the handle of callback h: listeners.splice(listeners.indexOf(fn), 1)
StopListener(h) ==
    /\ listeners' = Splice1(listeners, IndexOfFn(listeners, h))
    /\ stopArg' = h
    /\ stopBefore' = listeners
    /\ stoppedEver' = stoppedEver \cup {h}
    /\ UNCHANGED <<defaultHistory, wall, nextFn, cpc, frameNow, frameIdx, frameLen,
                   frames, frameStart, invoked, stoppedInFrame>>
    /\ UNCHANGED <<previousTime, fps>>
    /\ UNCHANGED <<ivars, tvars, vvars, hvars>>

\* animate, once per frame of the host, the callbacks returning at once
AnimateAll(gap) ==
    /\ frames < MaxFrames
    /\ wall' = wall + gap
    /\ frames' = frames + 1
    /\ \E dt \in {(wall + gap) - previousTime} :
           /\ previousTime' = wall + gap
           /\ fps' = lerp(fps, Over(Num(Second), Num(dt)), Rat(2, 10))
           /\ invoked' = [i \in 1..Len(listeners) |->
                            [fn |-> listeners[i], dt |-> Num(dt),
                             fps |-> lerp(fps, Over(Num(Second), Num(dt)), Rat(2, 10))]]
    /\ UNCHANGED <<listeners, defaultHistory, nextFn, cpc, frameNow, frameIdx, frameLen,
                   frameStart, stoppedInFrame, stopArg, stopBefore>>
    /\ UNCHANGED stoppedEver
    /\ UNCHANGED <<ivars, tvars, vvars, hvars>>

SimpleStep ==
    \/ AddListener
    \/ \E h \in Handles : StopListener(h)
    \/ \E gap \in FrameGaps : AnimateAll(gap)

SpecSimple == ClockInit /\ [][SimpleStep]_vars

\* ------------------------------------------------------------------------
\* throttle(fn, delay)
\* ------------------------------------------------------------------------
\* cb with the timer not set again in the call branch
cbNoRearm(toV, callV, timersV, t, d) ==
    IF callV
    THEN [to |-> toV, call |-> FALSE, timers |-> timersV \ {toV}, ran |-> TRUE]
    ELSE [to |-> 0, call |-> FALSE, timers |-> timersV \ {toV}, ran |-> FALSE]

\* cb(), at time t with delay d: clearTimeout(to), then either call = false,
\* to = setTimeout(cb, delay) and fn.apply(null, args), or to = false.
\* [to, call, timers, ran], ran telling that fn was invoked
cb(toV, callV, timersV, t, d) ==
    IF callV
    THEN [to |-> t + d, call |-> FALSE, timers |-> (timersV \ {toV}) \cup {t + d},
          ran |-> TRUE]
    ELSE [to |-> 0, call |-> FALSE, timers |-> timersV \ {toV}, ran |-> FALSE]

\* what an invocation of fn with argument a leaves in the observations
FnInvoked(a) ==
    /\ lastFnArgs' = a
    /\ lastFnAt' = clock
    /\ fnGap' = (IF lastFnAt >= 0 THEN clock - lastFnAt ELSE -1)
    /\ unserved' = FALSE

\* the wrapper called with argument a: call = true, args = arguments, and
\* cb() if no timer is set
WrapperCall(a) ==
    /\ wcalls < MaxWrapperCalls
    /\ clock + delay <= MaxClock
    /\ wcalls' = wcalls + 1
    /\ args' = a
    /\ lastCallIdle' = (timers = {})
    /\ IF to = 0
       THEN \E r \in {cb(to, TRUE, timers, clock, delay)} :
                /\ to' = r.to
                /\ call' = r.call
                /\ timers' = r.timers
                /\ lastCallInvoked' = r.ran
                /\ IF r.ran THEN FnInvoked(a)
                   ELSE (unserved' = TRUE /\ UNCHANGED <<lastFnArgs, lastFnAt, fnGap>>)
       ELSE /\ call' = TRUE
            /\ lastCallInvoked' = FALSE
            /\ unserved' = TRUE
            /\ UNCHANGED <<to, timers, lastFnArgs, lastFnAt, fnGap>>
    /\ UNCHANGED <<delay, clock>>
    /\ UNCHANGED <<ivars, cvars, tvars, vvars, svars>>

\* the timer due at time due fires, at its due time or later: the host
\* calls cb
TimerExpires(due) ==
    /\ due \in timers
    /\ clock >= due
    /\ \E r \in {cb(to, call, timers \ {due}, clock, delay)} :
           /\ to' = r.to
           /\ call' = r.call
           /\ timers' = r.timers
           /\ IF r.ran THEN FnInvoked(args)
              ELSE UNCHANGED <<lastFnArgs, lastFnAt, fnGap, unserved>>
    /\ UNCHANGED <<args, delay, clock, wcalls, lastCallIdle, lastCallInvoked>>
    /\ UNCHANGED <<ivars, cvars, tvars, vvars, svars>>

\* the host's time passes
TimePasses ==
    /\ clock < MaxClock
    /\ clock' = clock + 1
    /\ UNCHANGED <<to, call, args, delay, timers, wcalls, lastCallIdle, lastCallInvoked,
                   lastFnArgs, lastFnAt, fnGap, unserved>>
    /\ UNCHANGED <<ivars, cvars, tvars, vvars, svars>>

ThrottleStep ==
    \/ \E a \in ArgValues : WrapperCall(a)
    \/ \E due \in timers : TimerExpires(due)
    \/ TimePasses

\* a wrapper made with one of the delays, beside an integrator, a frame
\* clock and a Vector that are left alone
ThrottleInit ==
    /\ Constructed
    /\ stepSize = 8
    /\ \A i \in DOMAIN objects : objects[i].acceleration = V0
    /\ ClockLoaded
    /\ VectorUnused
    /\ SimpleLoaded
    /\ \E d \in Delays : Throttled(d)

\* the host lets time pass and fires every timer that is due
SpecThrottle ==
    /\ ThrottleInit
    /\ [][ThrottleStep]_vars
    /\ WF_vars(TimePasses)
    /\ WF_vars(\E due \in timers : TimerExpires(due))

\* ------------------------------------------------------------------------
\* Vector: the methods called on one Vector with one argument
\* ------------------------------------------------------------------------
\* the Vectors handed in: whole coordinates up to MaxCoord
Vectors == {Vector(Num(x), Num(y)) : x, y \in (-MaxCoord)..MaxCoord}

\* new Vector(x, y) twice: this and the argument
VectorsGiven ==
    /\ vec \in Vectors
    /\ arg \in Vectors
    /\ res = ZeroVector
    /\ vop = "none"
    /\ before = vec
    /\ origin = vec
    /\ reflects = 0
    /\ thrown = FALSE

\* this.normalize(), for a norm that is a fraction
Normalize ==
    /\ HasSqrt(NormSq(vec))
    /\ vec' = normalize(vec)
    /\ res' = normalize(vec)
    /\ vop' = "normalize"
    /\ before' = vec
    /\ origin' = normalize(vec)
    /\ reflects' = 0
    /\ thrown' = FALSE
    /\ UNCHANGED arg
    /\ UNCHANGED <<ivars, cvars, tvars, svars, hvars>>

\* this.reflect(arg)
Reflect ==
    /\ reflects < MaxReflects
    /\ vec' = reflect(vec, arg)
    /\ res' = reflect(vec, arg)
    /\ vop' = "reflect"
    /\ before' = vec
    /\ reflects' = reflects + 1
    /\ thrown' = FALSE
    /\ UNCHANGED <<arg, origin>>
    /\ UNCHANGED <<ivars, cvars, tvars, svars, hvars>>

\* this.proj(arg), for a target whose norm is a fraction
Proj ==
    /\ HasSqrt(NormSq(arg))
    /\ res' = proj(vec, arg)
    /\ vop' = "proj"
    /\ before' = vec
    /\ thrown' = FALSE
    /\ UNCHANGED <<vec, arg, origin, reflects>>
    /\ UNCHANGED <<ivars, cvars, tvars, svars, hvars>>

\* this.clampedProj(arg), for a target whose norm is a fraction
ClampedProj ==
    /\ HasSqrt(NormSq(arg))
    /\ res' = clampedProj(vec, arg)
    /\ vop' = "clampedProj"
    /\ before' = vec
    /\ thrown' = FALSE
    /\ UNCHANGED <<vec, arg, origin, reflects>>
    /\ UNCHANGED <<ivars, cvars, tvars, svars, hvars>>

\* this.reflection(arg): the caller catches what it throws
Reflection ==
    /\ \E r \in {reflection(vec, arg)} :
           /\ thrown' = r.threw
           /\ vec' = r.this
           /\ res' = (IF r.threw THEN res ELSE r.value)
           /\ origin' = (IF r.threw THEN origin ELSE r.this)
           /\ reflects' = (IF r.threw THEN reflects ELSE 0)
    /\ vop' = "reflection"
    /\ before' = vec
    /\ UNCHANGED arg
    /\ UNCHANGED <<ivars, cvars, tvars, svars, hvars>>

VectorStep ==
    \/ Normalize
    \/ Reflect
    \/ Proj
    \/ ClampedProj
    \/ Reflection

\* two Vectors and the methods called on them, beside an integrator and a
\* frame clock that are left alone
VectorInit ==
    /\ Constructed
    /\ stepSize = 8
    /\ \A i \in DOMAIN objects : objects[i].acceleration = V0
    /\ ClockLoaded
    /\ VectorsGiven
    /\ SimpleLoaded
    /\ Throttled(50)

SpecVector == VectorInit /\ [][VectorStep]_vars

\* ------------------------------------------------------------------------
\* Properties of the frame clock
\* ------------------------------------------------------------------------
\* the elements of a sequence
Range(seq) == {seq[i] : i \in 1..Len(seq)}

\* a sequence without the elements of a set
Without(seq, gone) == SelectSeq(seq, LAMBDA f : f \notin gone)

\* forEach has visited its last index
FrameOver == frames > 0 /\ (cpc = "idle" \/ frameIdx > frameLen)

\* C4: invoking the handle returned when listener L was registered removes L
\* from the active listeners and leaves every other listener in place.
C4_StopRemovesItsListener ==
    (stopArg # 0 /\ stopArg \in Range(stopBefore))
        => FnsOf(listeners) = Without(stopBefore, {stopArg})

\* C5: when callbacks invoke unregister handles during a frame, every
\* listener registered when the frame started, other than those whose
\* handles were invoked, is invoked exactly once in that frame, in
\* registration order.
C5_StopInFrameSparesOthers ==
    (FrameOver /\ stoppedInFrame # {})
        => Without(FnsOf(invoked), stoppedInFrame) = Without(frameStart, stoppedInFrame)

\* C25: after any sequence of handle invocations the active set is exactly
\* the registered listeners whose own handle was never invoked (invoking the
\* handle of a listener already removed changes nothing).
C25_StopIsIdempotent ==
    /\ Range(listeners) = Handles \ stoppedEver
    /\ (stopArg # 0 /\ stopArg \notin Range(stopBefore)) => listeners = stopBefore

\* ------------------------------------------------------------------------
\* Properties of tick
\* ------------------------------------------------------------------------
\* the tick calls of the last frame made in dynamic mode, and in fixed mode
DynamicTicks == {i \in 1..Len(ticks) : ~ticks[i].before.isFixed}

FixedTicks == {i \in 1..Len(ticks) : ticks[i].before.isFixed}

\* C11: on a dynamic-mode listener's first tick (no previous timestamp
\* stored) the raw delta pushed into its history buffer is the configured
\* nominal delta, whatever the current time is.
C11_FirstTickPushesNominal ==
    \A i \in DynamicTicks :
        ticks[i].before.timePrevIsNull
            => Last(ticks[i].after.deltaHistory) = told[i].nominal

\* C12: on every dynamic-mode tick the delta computed for a listener is the
\* minimum of that listener's own most recent deltaSampleSize raw deltas,
\* clamped into [deltaMin, deltaMax]; with deltaMin <= deltaMax it lies in
\* [deltaMin, deltaMax].
C12_DeltaIsMinOfOwnRecent ==
    \A i \in DynamicTicks :
        LET k == ticks[i]
            own == SliceLast(told[i].raws, k.before.deltaSampleSize)
        IN  /\ k.delta = Clamp(MinOf(own), k.before.deltaMin, k.before.deltaMax)
            /\ ~Less(k.before.deltaMax, k.before.deltaMin)
                 => (~Less(k.delta, k.before.deltaMin) /\ ~Less(k.before.deltaMax, k.delta))

\* a dynamic tick with deltaSampleSize 5 and deltaMax 33 ms that leaves the
\* raw deltas 16, 16, 16, 200, 16 (ms) in the history buffer
SmoothingCase(k) ==
    /\ ~k.before.isFixed
    /\ k.before.deltaSampleSize = 5
    /\ k.before.deltaMax = Num(3 * 33)
    /\ k.after.deltaHistory =
         <<Num(3 * 16), Num(3 * 16), Num(3 * 16), Num(3 * 200), Num(3 * 16)>>

\* C13, as stated: with deltaSampleSize 5 and deltaMax 33, after the raw
\* deltas 16, 16, 16, 200, 16 the delta delivered on the last tick is 33.
C13_SmoothedDeltaIs33 ==
    \A i \in 1..Len(ticks) : SmoothingCase(ticks[i]) => ticks[i].dt = Num(3 * 33)

\* C13, amended: with deltaSampleSize 5, deltaMax 33 and the default fps of
\* 60, after the raw deltas 16, 16, 16, 200, 16 the delta delivered on the
\* last tick is deltaMin = 1000 / 60 ms: the minimum 16 raised to deltaMin.
C13_SmoothedDeltaIsDeltaMin ==
    \A i \in 1..Len(ticks) :
        SmoothingCase(ticks[i])
            => /\ ticks[i].dt = ticks[i].before.deltaMin
               /\ ticks[i].dt = Rat(Second, 60)

C13_Witness == \E i \in 1..Len(ticks) : SmoothingCase(ticks[i])

\* C14: on every tick on which a listener's timeScale is 0 the stored
\* correction is 0 and the delta delivered to the callback is 0, in fixed
\* and in dynamic mode.
C14_PausedDeliversZero ==
    \A i \in 1..Len(ticks) :
        ticks[i].before.timeScale = 0
            => (ticks[i].after.correction = Num(0) /\ ticks[i].dt = Num(0))

\* C15: every tick of a fixed-mode listener delivers the configured nominal
\* delta times timeScale and leaves the previous time, the history buffer,
\* delta, correction and the previous time-scale as they were.
C15_FixedTickTouchesOnlyCounter ==
    \A i \in FixedTicks :
        LET k == ticks[i]
        IN  /\ k.dt = Times(told[i].nominal, Num(k.before.timeScale))
            /\ \A f \in {"timePrev", "timePrevIsNull", "deltaHistory", "histShared",
                         "delta", "correction", "timeScalePrev"} :
                   k.after[f] = k.before[f]

\* a finite number above 0
Positive(a) == IsFinite(a) /\ Less(Num(0), a)

\* C16: registering with fps zero or negative is reported as an error: no
\* listener with Infinity, NaN or negative delta bounds is in the active set.
C16_NoDegenerateListener ==
    \A i \in 1..Len(listeners) :
        /\ Positive(listeners[i].opts.deltaMin)
        /\ Positive(listeners[i].opts.deltaMax)

\* C20: on every dynamic-mode tick with unchanged time-scale the stored
\* correction is this tick's clamped delta divided by the listener's
\* configured nominal delta.
C20_CorrectionOverNominal ==
    \A i \in DynamicTicks :
        LET k == ticks[i]
        IN  (k.before.timeScale = k.before.timeScalePrev /\ k.before.timeScale # 0)
                => k.after.correction = Over(k.delta, told[i].nominal)

\* the listeners registered with default options that have ticked
DefaultTicked ==
    {i \in 1..Len(listeners) :
        /\ listeners[i].opts = [NewOpts(<<>>) EXCEPT
                                  !.correction = listeners[i].opts.correction,
                                  !.delta = listeners[i].opts.delta,
                                  !.fps = listeners[i].opts.fps,
                                  !.counterTimestamp = listeners[i].opts.counterTimestamp,
                                  !.frameCounter = listeners[i].opts.frameCounter,
                                  !.deltaHistory = listeners[i].opts.deltaHistory,
                                  !.timePrev = listeners[i].opts.timePrev,
                                  !.timePrevIsNull = FALSE,
                                  !.histShared = FALSE]}

\* C23: the history buffer of a listener registered with default options
\* holds only the raw deltas of that listener's own ticks, and no tick
\* modifies the default configuration object.
C23_HistoriesIsolated ==
    /\ defaultHistory = defaultOpts.deltaHistory
    /\ \A i \in DefaultTicked :
           listeners[i].opts.deltaHistory
               = SliceLast(told[i].raws, listeners[i].opts.deltaSampleSize)

\* ------------------------------------------------------------------------
\* Properties of Vector
\* ------------------------------------------------------------------------
\* both coordinates are finite numbers
FiniteVector(v) == IsFinite(v.x) /\ IsFinite(v.y)

\* C17: normalize() on the zero vector yields exactly (1, 0); on every other
\* vector it yields a vector of norm 1 with the same direction.
C17_NormalizeGivesUnit ==
    (vop = "normalize" /\ FiniteVector(before))
        => IF before = ZeroVector THEN vec = Vector(Num(1), Num(0))
           ELSE /\ norm(vec) = Num(1)
                /\ Times(vec.x, before.y) = Times(vec.y, before.x)
                /\ Less(Num(0), dot(vec, before))

C17_Witness == vop = "normalize" /\ before = Vector(Num(3), Num(-4))

\* C18: reflect(n) called twice on v with the same non-zero normal n leaves
\* v as it was.
C18_ReflectTwiceIsIdentity ==
    (reflects = 2 /\ arg # ZeroVector) => vec = origin

C18_Witness ==
    reflects = 2 /\ vop = "reflect" /\ arg = Vector(Num(1), Num(2))
        /\ origin = Vector(Num(3), Num(4))

\* proj or clampedProj has been called with the zero vector as its target
ZeroTarget == vop \in {"proj", "clampedProj"} /\ arg = ZeroVector

\* C19, as stated: proj(u) and clampedProj(u) with a zero-length target u
\* return a vector with NaN or Infinity components.
C19_ZeroTargetPropagates == ZeroTarget => ~FiniteVector(res)

\* C19, amended: with a zero-length target u and a finite v, v.proj(u)
\* returns (v.x, 0) and v.clampedProj(u) returns (0, 0), and v is unchanged.
C19_ZeroTargetFallsBack ==
    (ZeroTarget /\ FiniteVector(before))
        => /\ res = (IF vop = "proj" THEN Vector(before.x, Num(0)) ELSE ZeroVector)
           /\ vec = before

C19_Witness == ZeroTarget /\ vop = "proj" /\ before = Vector(Num(3), Num(4))

\* C21: reflection(normal) returns a new vector equal to the reflection of
\* the receiver about the normal, leaves the receiver unchanged and raises
\* no exception, for every receiver and non-zero normal.
C21_ReflectionIsPure ==
    (vop = "reflection" /\ arg # ZeroVector)
        => (~thrown /\ res = reflect(before, arg) /\ vec = before)

\* ------------------------------------------------------------------------
\* Properties of throttle
\* ------------------------------------------------------------------------
\* C26: fn is invoked immediately on a wrapper call made while no timer is
\* pending; two invocations of fn are at least delay apart; fn is always
\* invoked with the argument of the most recent wrapper call; and every
\* wrapper call made while a timer is pending is eventually followed by an
\* invocation of fn.
C26_ThrottleServes ==
    /\ [](lastCallIdle => lastCallInvoked)
    /\ [](fnGap = -1 \/ fnGap >= delay)
    /\ []((~unserved /\ lastFnAt >= 0) => lastFnArgs = args)
    /\ (unserved ~> ~unserved)

\* C26's case: the last wrapper call came while a timer was pending, with
\* another argument than the invocation before it, and the timer's expiry
\* has since invoked fn with that argument
C26_Witness ==
    /\ wcalls >= 2
    /\ ~lastCallIdle
    /\ ~unserved
    /\ fnGap >= delay
    /\ lastFnArgs = 2

\* ------------------------------------------------------------------------
\* Properties of the integrator
\* ------------------------------------------------------------------------
\* a step call has returned
StepReturned == pc = "idle" /\ op = "step"

\* the sub-steps of the current step call of one kind
SubStepsOf(kind) == {i \in 1..Len(subSteps) : subSteps[i].kind = kind}

\* n full sub-steps of size ss
FullSteps(n, ss) == [i \in 1..n |-> [kind |-> "full", dt |-> ss]]

\* C1: when step(dt) with dt > 0 returns, simulationTime is its value before
\* the call plus dt.
C1_TimeLandsOnTarget ==
    (StepReturned /\ dtReq > 0) => time = timeBefore + dtReq

\* C2: for 0 < dt <= maxSteps * stepSize, step(dt) calls integrate(stepSize)
\* floor(dt / stepSize) times and then, iff dt is no multiple of stepSize,
\* integrate(dt mod stepSize).
C2_FloorThenRemainder ==
    (StepReturned /\ dtReq > 0 /\ dtReq <= maxSteps * stepSize)
        => subSteps = FullSteps(dtReq \div stepSize, stepSize)
                        \o (IF dtReq % stepSize # 0
                            THEN <<[kind |-> "remainder", dt |-> dtReq % stepSize]>>
                            ELSE <<>>)

C22_PausedDeltaStepsNothing ==
    (StepReturned /\ dtReq = 0) => (subSteps = <<>> /\ time = timeBefore)

\* the sum of the durations of a sequence of sub-steps
RECURSIVE SumDt(_)
SumDt(steps) == IF steps = <<>> THEN 0 ELSE steps[1].dt + SumDt(Tail(steps))

\* C24: for dt > 0 the durations passed to integrate during one step(dt)
\* call sum to min(dt, maxSteps * stepSize).
C24_DurationsSumToRequest ==
    (StepReturned /\ dtReq > 0)
        => SumDt(subSteps) = (IF dtReq > maxSteps * stepSize
                              THEN maxSteps * stepSize ELSE dtReq)

\* C24's cases: a call that overshoots its target and pays the difference
\* back in a remainder of negative duration, and a call beyond the budget
C24_Witness ==
    /\ StepReturned
    /\ dtReq > 0
    /\ \E i \in SubStepsOf("remainder") : subSteps[i].dt < 0

\* what one integrate call does, in order: every position, every interaction
\* function as registered, every velocity
ExpectedEvents ==
    BodyEvents("position", Len(objects))
        \o [i \in 1..Len(interactions) |-> <<interactions[i], i>>]
        \o BodyEvents("velocity", Len(objects))

\* C6: within one integrate call the position updates of all bodies come
\* first, then every interaction function once in registration order, then
\* the velocity updates of all bodies.
C6_StageOrder ==
    /\ Len(events) <= Len(ExpectedEvents)
    /\ events = SubSeq(ExpectedEvents, 1, Len(events))
    /\ (hasKinetic /\ pc \in {"idle", "test"}) => events = ExpectedEvents

\* C6's case: an integrate call with two different interaction functions has
\* returned
C6_Witness ==
    /\ pc = "idle"
    /\ hasKinetic
    /\ Len(interactions) = 2
    /\ interactions[1] # interactions[2]
    /\ Len(events) = 2 * Len(objects) + 2

\* C7: when the first interaction function of a sub-step is invoked, every
\* body's acceleration is the zero vector.
C7_AccelerationResetBeforeInteract ==
    pc = "stage2"
        => \A i \in DOMAIN objects : objects[i].acceleration = V0

\* C7's case: interact is about to run and a body came into the sub-step
\* with a non-zero acceleration
C7_Witness ==
    /\ pc = "stage2"
    /\ calls = 2
    /\ \E i \in DOMAIN objects : objects[i].oldAcc # V0

\* C8: simulationTime never decreases, between calls or inside one.
C8_TimeMonotone == [][time' >= time]_vars

\* C8's case: two step calls, each of which advanced simulationTime
C8_Witness ==
    /\ StepReturned
    /\ calls = 2
    /\ timeBefore > 0
    /\ time > timeBefore

\* no body is handed over with a non-zero acceleration
StartsAtRest == \A i \in DOMAIN objects0 : objects0[i].acceleration = V0

\* the bodies move freely: no interaction function, at least one integrate
\* call has returned
FreeRun == Len(interactions) = 0 /\ hasKinetic /\ pc \in {"idle", "test"}

\* kineticEnergy and every velocity are the initial ones
EnergyAsInitially ==
    /\ kinetic = SumKinetic(objects0, Len(objects0))
    /\ \A i \in DOMAIN objects : objects[i].velocity = objects0[i].velocity

\* C9 as stated: with no interaction function, kineticEnergy after any
\* sequence of integrate calls is the initial kinetic energy and no velocity
\* has changed.
C9_FreeEnergyConserved == FreeRun => EnergyAsInitially

\* C9 as amended: the same, for bodies handed over with zero acceleration.
C9_FreeEnergyConservedFromRest == (FreeRun /\ StartsAtRest) => EnergyAsInitially

\* C9's case: two calls on free bodies starting at rest, one of them moving
C9_Witness ==
    /\ FreeRun
    /\ StartsAtRest
    /\ calls = 2
    /\ pc = "idle"
    /\ \E i \in DOMAIN objects : objects[i].velocity # V0 /\ objects[i].position # objects0[i].position

====
